---- MODULE Spec2Model ----
(***************************************************************************)
(* Model of the `sign-tx` sub-command of polyjuice (src/src/main.rs).      *)
(*                                                                         *)
(* A run reads a transaction receipt and a private key, scans the          *)
(* receipt's witnesses to assemble the unsigned message, signs its hash    *)
(* and writes the signature back into witness 0.                           *)
(*                                                                         *)
(* Witnesses are byte strings.  packed::WitnessArgs is the molecule table  *)
(* {lock, input_type, output_type : BytesOpt}; from_slice and as_bytes are *)
(* modelled byte for byte.  An Option is a sequence of length 0 (None) or  *)
(* 1 (Some).  Indices named idx are the 0-based indices of the code.       *)
(***************************************************************************)
EXTENDS Integers, Sequences, FiniteSets, TLC

\* ------------------------------------------------------------------------
\* Program constants and model bounds
\* ------------------------------------------------------------------------

\* raw_witness[4..4 + 65]: 4 bytes of program length, then the signature
SigOffset == 4

SigLen == 65

\* molecule's NUMBER_SIZE: every length and offset is a little-endian u32
NumberSize == 4

\* packed::WitnessArgs has three fields
FieldCount == 3

\* the length of H256 and of a blake2b_256 digest
HashLen == 32

\* privkey.trim().as_bytes()[0..64]: the hex digits of a secret key
KeyHexLen == 64

\* the largest number of witnesses in a receipt of the model
MaxWitnesses == 3

\* the number of times sign-tx is run on the same receipt
MaxRuns == 2

None == <<>>

Some(x) == <<x>>

\* ------------------------------------------------------------------------
\* Byte strings
\* ------------------------------------------------------------------------

\* s[a..b] of Rust, a and b 0-based, b exclusive
Slice(s, a, b) == SubSeq(s, a + 1, b)

Repeat(b, n) == [i \in 1..n |-> b]

\* u32::to_le_bytes
PackNumber(n) ==
    << n % 256, (n \div 256) % 256, (n \div 65536) % 256, (n \div 16777216) % 256 >>

\* the little-endian u32 at 0-based offset off of s
UnpackNumber(s, off) ==
    s[off + 1] + 256 * s[off + 2] + 65536 * s[off + 3] + 16777216 * s[off + 4]

\* ------------------------------------------------------------------------
\* molecule: packed::Bytes, packed::BytesOpt, packed::WitnessArgs
\* ------------------------------------------------------------------------

\* Bytes::from(v).pack().as_bytes(): item count, then the items
PackBytes(raw) == PackNumber(Len(raw)) \o raw

\* BytesOpt::as_bytes(): nothing for None, the packed Bytes for Some
PackBytesOpt(opt) == IF opt = None THEN <<>> ELSE PackBytes(opt[1])

\* BytesOptReader::verify: empty, or a Bytes whose item count fills the slice
VerifyBytesOpt(slice) ==
    \/ Len(slice) = 0
    \/ /\ Len(slice) >= NumberSize
       /\ Len(slice) = NumberSize + UnpackNumber(slice, 0)

\* BytesOpt::to_opt().map(|data| data.raw_data())
ToOptRawData(slice) ==
    IF Len(slice) = 0 THEN None ELSE Some(Slice(slice, NumberSize, Len(slice)))

\* WitnessArgs::as_bytes() of builder.build(): total size, three offsets, fields
AsBytes(witness_args) ==
    LET f1 == PackBytesOpt(witness_args.lock)
        f2 == PackBytesOpt(witness_args.input_type)
        f3 == PackBytesOpt(witness_args.output_type)
        header == NumberSize * (FieldCount + 1)
    IN  PackNumber(header + Len(f1) + Len(f2) + Len(f3))
        \o PackNumber(header)
        \o PackNumber(header + Len(f1))
        \o PackNumber(header + Len(f1) + Len(f2))
        \o f1 \o f2 \o f3

\* WitnessArgsReader::verify(slice, compatible = false)
VerifyWitnessArgs(slice) ==
    /\ Len(slice) >= NumberSize
    /\ Len(slice) = UnpackNumber(slice, 0)
    /\ Len(slice) >= NumberSize * 2
    /\ LET offset_first == UnpackNumber(slice, NumberSize)
       IN  /\ offset_first = NumberSize * (FieldCount + 1)
           /\ Len(slice) >= offset_first
           /\ LET o1 == UnpackNumber(slice, NumberSize)
                  o2 == UnpackNumber(slice, NumberSize * 2)
                  o3 == UnpackNumber(slice, NumberSize * 3)
                  o4 == Len(slice)
              IN  /\ o1 <= o2 /\ o2 <= o3 /\ o3 <= o4
                  /\ VerifyBytesOpt(Slice(slice, o1, o2))
                  /\ VerifyBytesOpt(Slice(slice, o2, o3))
                  /\ VerifyBytesOpt(Slice(slice, o3, o4))

\* packed::WitnessArgs::from_slice: Err, or the three fields of the table
FromSlice(slice) ==
    IF ~VerifyWitnessArgs(slice)
    THEN [ok |-> FALSE, args |-> [lock |-> None, input_type |-> None, output_type |-> None]]
    ELSE LET o1 == UnpackNumber(slice, NumberSize)
             o2 == UnpackNumber(slice, NumberSize * 2)
             o3 == UnpackNumber(slice, NumberSize * 3)
             o4 == Len(slice)
         IN  [ok |-> TRUE,
              args |-> [lock        |-> ToOptRawData(Slice(slice, o1, o2)),
                        input_type  |-> ToOptRawData(Slice(slice, o2, o3)),
                        output_type |-> ToOptRawData(Slice(slice, o3, o4))]]

\* ------------------------------------------------------------------------
\* sign-tx: reading the private key
\* ------------------------------------------------------------------------

\* the key file after trim(): its length, whether its first 64 characters are
\* hex digits, and the scalar they spell
ParsePrivkey(file) ==
    IF file.len < KeyHexLen THEN [status |-> "panic", err |-> "byte index out of range", key |-> 0]
    ELSE IF ~file.is_hex THEN [status |-> "err", err |-> "Invalid character", key |-> 0]
    ELSE IF file.key = 0 THEN [status |-> "err", err |-> "malformed or out-of-range secret key", key |-> 0]
    ELSE [status |-> "ok", err |-> "", key |-> file.key]

\* ------------------------------------------------------------------------
\* sign-tx: building the unsigned message
\* ------------------------------------------------------------------------

\* raw_witness[4..4 + 65] panics when the vector is shorter than 69 bytes
SliceInRange(raw_witness) == Len(raw_witness) >= SigOffset + SigLen

\* ZeroSignature with a slice one byte short: raw_witness[4..4 + 64]
ZeroSignatureShort(raw_witness) ==
    [i \in 1..Len(raw_witness) |->
        IF i > SigOffset /\ i <= SigOffset + SigLen - 1 THEN 0 ELSE raw_witness[i]]

\* raw_witness[4..4 + 65].copy_from_slice(&[0u8; 65][..]) on a copy
ZeroSignature(raw_witness) ==
    [i \in 1..Len(raw_witness) |->
        IF i > SigOffset /\ i <= SigOffset + SigLen THEN 0 ELSE raw_witness[i]]

\* the state of the block before the first loop
InitScan(hash) ==
    [status |-> "ok", err |-> "",
     entrance_witness |-> None,
     unsigned_data |-> hash,
     output_witnesses |-> <<>>]

\* idx == 0 in the first loop: remember the entrance witness and append its
\* input-side payload with the signature zeroed
EntranceInputSide(acc, witness_args, raw_witness) ==
    IF ~SliceInRange(raw_witness)
    THEN [acc EXCEPT !.status = "panic", !.err = "range end index 69 out of range"]
    ELSE [acc EXCEPT
            !.entrance_witness = Some([witness_args |-> witness_args,
                                       raw_witness |-> raw_witness]),
            !.unsigned_data = @ \o ZeroSignature(raw_witness)]

\* EntranceOutputSide without the zeroing: the payload goes in as it is
EntranceOutputSideVerbatim(acc, witness_args, raw_witness) ==
    IF ~SliceInRange(raw_witness)
    THEN [acc EXCEPT !.status = "panic", !.err = "range end index 69 out of range"]
    ELSE [acc EXCEPT
            !.entrance_witness = Some([witness_args |-> witness_args,
                                       raw_witness |-> raw_witness]),
            !.unsigned_data = @ \o raw_witness]

\* idx == 0 in the second loop: the same for an output-side payload
EntranceOutputSide(acc, witness_args, raw_witness) ==
    IF ~SliceInRange(raw_witness)
    THEN [acc EXCEPT !.status = "panic", !.err = "range end index 69 out of range"]
    ELSE [acc EXCEPT
            !.entrance_witness = Some([witness_args |-> witness_args,
                                       raw_witness |-> raw_witness]),
            !.unsigned_data = @ \o ZeroSignature(raw_witness)]

\* ScanWitness without the second bucket: an output-side payload is appended
\* where it is met
ScanWitnessInOrder(acc, idx, witness) ==
    LET decoded == FromSlice(witness)
        witness_args == decoded.args
    IN  IF ~decoded.ok
        THEN [acc EXCEPT !.status = "err", !.err = "Invalid witness"]
        ELSE IF witness_args.input_type # None
        THEN IF idx = 0
             THEN EntranceInputSide(acc, witness_args, witness_args.input_type[1])
             ELSE [acc EXCEPT !.unsigned_data = @ \o witness_args.input_type[1]]
        ELSE IF witness_args.output_type # None
        THEN IF idx = 0
             THEN EntranceOutputSide(acc, witness_args, witness_args.output_type[1])
             ELSE [acc EXCEPT !.unsigned_data = @ \o witness_args.output_type[1]]
        ELSE acc

\* one iteration of `for (idx, witness) in tx_receipt.tx.witnesses.iter().enumerate()`
ScanWitness(acc, idx, witness) ==
    LET decoded == FromSlice(witness)
        witness_args == decoded.args
    IN  IF ~decoded.ok
        THEN [acc EXCEPT !.status = "err", !.err = "Invalid witness"]
        ELSE IF witness_args.input_type # None
        THEN IF idx = 0
             THEN EntranceInputSide(acc, witness_args, witness_args.input_type[1])
             ELSE [acc EXCEPT !.unsigned_data = @ \o witness_args.input_type[1]]
        ELSE IF witness_args.output_type # None
        THEN [acc EXCEPT !.output_witnesses =
                Append(@, [idx |-> idx, witness_args |-> witness_args,
                           raw_witness |-> witness_args.output_type[1]])]
        ELSE acc

\* the first loop, from the witness at 1-based position i on; `?` and a panic
\* leave the loop
RECURSIVE ScanWitnesses(_, _, _)
ScanWitnesses(acc, ws, i) ==
    IF i > Len(ws) \/ acc.status # "ok" THEN acc
    ELSE ScanWitnesses(ScanWitness(acc, i - 1, ws[i]), ws, i + 1)

\* one iteration of `for (idx, witness_args, raw_witness) in output_witnesses`
PutOutputWitness(acc, ow) ==
    IF ow.idx = 0
    THEN EntranceOutputSide(acc, ow.witness_args, ow.raw_witness)
    ELSE [acc EXCEPT !.unsigned_data = @ \o ow.raw_witness]

\* the second loop
RECURSIVE PutOutputWitnesses(_, _)
PutOutputWitnesses(acc, i) ==
    IF i > Len(acc.output_witnesses) \/ acc.status # "ok" THEN acc
    ELSE PutOutputWitnesses(PutOutputWitness(acc, acc.output_witnesses[i]), i + 1)

\* entrance_witness.ok_or_else(|| String::from("No entrance witness found"))?
CheckEntrance(acc) ==
    IF acc.status = "ok" /\ acc.entrance_witness = None
    THEN [acc EXCEPT !.status = "err", !.err = "No entrance witness found"]
    ELSE acc

\* the block that yields (message, entrance_witness_args, entrance_raw_witness)
BuildUnsigned(hash, ws) ==
    CheckEntrance(PutOutputWitnesses(ScanWitnesses(InitScan(hash), ws, 1), 1))

\* blake2b_256, abstracted to a 32-byte mix of the bytes and their positions;
\* Mix sums data[lo..hi] by halves
RECURSIVE Mix(_, _, _)
Mix(data, lo, hi) ==
    IF lo > hi THEN <<0, 0>>
    ELSE IF lo = hi THEN << data[lo] % 256, (lo * data[lo] + 1) % 256 >>
    ELSE LET mid == (lo + hi) \div 2
             l == Mix(data, lo, mid)
             r == Mix(data, mid + 1, hi)
         IN  << (l[1] + r[1]) % 256, (l[2] + r[2]) % 256 >>

Blake2b256(data) ==
    LET m == Mix(data, 1, Len(data))
    IN  [k \in 1..HashLen |-> (m[1] + k * m[2]) % 256]

\* ------------------------------------------------------------------------
\* sign-tx: signing and rebuilding the witness
\* ------------------------------------------------------------------------

\* SECP256K1.sign_recoverable then serialize_compact: a deterministic function
\* of digest and key, abstracted to 64 bytes and a recovery id
SignRecoverable(digest, key) ==
    [data |-> [i \in 1..(SigLen - 1) |-> (digest[((i - 1) % HashLen) + 1] + key * i) % 256],
     recov_id |-> (digest[1] + key) % 4]

\* signature_bytes[0..64] = data[0..64]; signature_bytes[64] = recov_id
SignatureBytes(digest, key) ==
    LET sig == SignRecoverable(digest, key)
    IN  sig.data \o << sig.recov_id >>

\* EmbedSignature that splices the signature in instead of overwriting
EmbedSignatureInsert(raw_witness, sig) ==
    SubSeq(raw_witness, 1, SigOffset) \o sig \o SubSeq(raw_witness, SigOffset + 1, Len(raw_witness))

\* raw_witness[4..4 + 65].copy_from_slice(&signature_bytes[..])
EmbedSignature(raw_witness, sig) ==
    [i \in 1..Len(raw_witness) |->
        IF i > SigOffset /\ i <= SigOffset + SigLen THEN sig[i - SigOffset] ELSE raw_witness[i]]

\* the field of the entrance witness that receives the signed payload
RebuildArgs(witness_args, data) ==
    IF witness_args.output_type # None
    THEN [witness_args EXCEPT !.output_type = data]
    ELSE [witness_args EXCEPT !.input_type = data]

\* the new bytes of witness 0
RebuildWitness(entrance, sig) ==
    AsBytes(RebuildArgs(entrance.witness_args,
                        Some(EmbedSignature(entrance.raw_witness, sig))))

\* ------------------------------------------------------------------------
\* build_signature
\* ------------------------------------------------------------------------

\* u64::to_le_bytes of a length
PackNumber64(n) == PackNumber(n) \o PackNumber((n \div 65536) \div 65536)

\* packed::WitnessArgs::default(): no field is set
DefaultWitnessArgs == [lock |-> None, input_type |-> None, output_type |-> None]

\* init_witness: the default for an empty witness, else the decoded witness
InitWitness(raw_data) ==
    IF Len(raw_data) = 0
    THEN [ok |-> TRUE, args |-> DefaultWitnessArgs]
    ELSE FromSlice(raw_data)

\* ZeroLock that leaves the lock as it is
KeepLock(witness_args) == witness_args

\* init_witness.as_builder().lock(Some(Bytes::from(vec![0u8; 65])).pack()).build()
ZeroLock(witness_args) == [witness_args EXCEPT !.lock = Some(Repeat(0, SigLen))]

\* blake2b.update of the length and the bytes of one witness
UpdateWitness(hashed, bytes) == hashed \o PackNumber64(Len(bytes)) \o bytes

\* `for idx in input_group_idxs.iter().skip(1).cloned()`, from the 1-based
\* position i of input_group_idxs on; idx is a 0-based index into witnesses
RECURSIVE UpdateOthers(_, _, _, _)
UpdateOthers(hashed, idxs, ws, i) ==
    IF i > Len(idxs) THEN hashed
    ELSE UpdateOthers(UpdateWitness(hashed, ws[idxs[i] + 1]), idxs, ws, i + 1)

\* build_signature up to blake2b.finalize: what was fed to the hasher, and the
\* message; input_group_idxs[0] panics on an empty slice, `?` returns the
\* decoding error of the first witness
HashInputGroup(hash, idxs, ws) ==
    IF Len(idxs) = 0
    THEN [status |-> "panic", err |-> "index out of bounds", hashed |-> <<>>, message |-> <<>>]
    ELSE LET init_witness == InitWitness(ws[idxs[1] + 1])
         IN  IF ~init_witness.ok
             THEN [status |-> "err", err |-> "Invalid witness", hashed |-> <<>>, message |-> <<>>]
             ELSE LET hashed == UpdateOthers(
                                  UpdateWitness(hash, AsBytes(ZeroLock(init_witness.args))),
                                  idxs, ws, 2)
                  IN  [status |-> "ok", err |-> "", hashed |-> hashed,
                       message |-> Blake2b256(hashed)]

\* signer(&message).map(|data| Bytes::from(data.to_vec())): the signer's 65
\* bytes, or its error
CallSignerResult(s, digest) ==
    IF s.ok
    THEN [ok |-> TRUE, data |-> SignatureBytes(digest, s.key), err |-> ""]
    ELSE [ok |-> FALSE, data |-> <<>>, err |-> s.err]

\* ------------------------------------------------------------------------
\* Inputs of the model
\* ------------------------------------------------------------------------

\* a payload: 4 bytes of program length, 65 signature bytes, program bytes
Payload(sig_byte, program) ==
    PackNumber(SigLen + Len(program)) \o Repeat(sig_byte, SigLen) \o program

\* unsigned, as build-tx leaves it
PayloadA == Payload(0, <<1, 2>>)

\* with a signature slice that is already filled
PayloadB == Payload(7, <<3>>)

\* exactly 69 bytes
PayloadC == Payload(5, <<>>)

\* one byte short of holding a signature
PayloadShort == PackNumber(SigLen - 1) \o Repeat(6, SigLen - 1)

PayloadTiny == <<8, 9>>

Args(lock, input_type, output_type) ==
    [lock |-> lock, input_type |-> input_type, output_type |-> output_type]

\* bytes that are no WitnessArgs: the table's total size is wrong
BadWitness == <<99, 0, 0, 0>> \o Repeat(0, 12)

\* the witnesses the model puts at index 0
EntranceWitnesses ==
    { <<>>,
      AsBytes(Args(Some(<<9>>), None, None)),
      AsBytes(Args(None, Some(PayloadA), None)),
      AsBytes(Args(Some(<<9>>), Some(PayloadB), None)),
      AsBytes(Args(Some(<<9>>), None, Some(PayloadB))),
      AsBytes(Args(None, Some(PayloadA), Some(PayloadB))),
      AsBytes(Args(None, Some(PayloadShort), None)),
      AsBytes(Args(None, None, Some(PayloadShort))) }

\* the witnesses the model puts at the other indices
OtherWitnesses ==
    { BadWitness,
      AsBytes(Args(None, None, None)),
      AsBytes(Args(None, Some(PayloadB), None)),
      AsBytes(Args(Some(<<9>>), None, Some(PayloadC))),
      AsBytes(Args(None, Some(PayloadTiny), Some(PayloadB))),
      AsBytes(Args(None, Some(PayloadTiny), None)) }

WitnessLists ==
    UNION { { ws \in [1..n -> EntranceWitnesses \cup OtherWitnesses] :
                /\ n > 0 => ws[1] \in EntranceWitnesses
                /\ \A i \in 2..n : ws[i] \in OtherWitnesses } : n \in 0..MaxWitnesses }

TxHashes == { [i \in 1..HashLen |-> 16 + i] }

PrivkeyFiles ==
    { [len |-> 64, is_hex |-> TRUE, key |-> 1],
      [len |-> 64, is_hex |-> TRUE, key |-> 0],
      [len |-> 64, is_hex |-> FALSE, key |-> 0],
      [len |-> 10, is_hex |-> TRUE, key |-> 0] }

\* the witnesses of the transactions build_signature is called on
GroupWitnesses ==
    { <<>>,
      BadWitness,
      AsBytes(Args(Some(Repeat(3, SigLen)), Some(PayloadTiny), Some(<<7>>))) }

GroupWitnessLists ==
    UNION { [1..n -> GroupWitnesses] : n \in 1..MaxWitnesses }

\* the index lists of an input group over n witnesses: 0-based indices in
\* range, each input once; the empty list is the call with no input
IndexLists(n) ==
    UNION { { idxs \in [1..k -> 0..(n - 1)] :
                \A i, j \in 1..k : i # j => idxs[i] # idxs[j] } : k \in 0..n }

\* the signers: one per key, and one that refuses
Signers ==
    { [ok |-> TRUE, key |-> 1, err |-> ""],
      [ok |-> FALSE, key |-> 0, err |-> "signer refused"] }

\* ------------------------------------------------------------------------
\* State
\* ------------------------------------------------------------------------

VARIABLES
    pc,                 \* where the run is
    run,                \* the number of the run of sign-tx, from 1
    receipt_witnesses,  \* the witnesses of the receipt file the run has read
    witnesses,          \* tx_receipt.tx.witnesses
    tx_hash,            \* tx.calc_tx_hash(), which does not cover the witnesses
    privkey_file,       \* the content of the file named by --privkey
    privkey,            \* the secret key
    unsigned_data,      \* the bytes whose blake2b_256 is signed
    message,            \* secp256k1::Message of the digest
    entrance_witness,   \* (entrance_witness_args, entrance_raw_witness)
    signature_bytes,    \* the 65 bytes of the recoverable signature
    err,                \* the Err(String) main returns, or the panic message
    emitted,            \* the transaction handed to ckb-cli and written out
    input_group_idxs,   \* build_signature: the indices of the input group
    group_witnesses,    \* build_signature: witnesses, each by its raw_data()
    signer,             \* build_signature: the signer it is given
    sig_pc,             \* build_signature: where the call is
    sig_hashed,         \* build_signature: the bytes fed to blake2b
    sig_message,        \* build_signature: the message handed to the signer
    sig_result,         \* build_signature: the value returned, Ok or Err
    sig_err             \* build_signature: the error returned, or the panic message

\* the variables of sign-tx
tx_vars == << pc, run, receipt_witnesses, witnesses, tx_hash, privkey_file, privkey,
              unsigned_data, message, entrance_witness, signature_bytes, err, emitted >>

\* the variables of a call of build_signature
sig_vars == << input_group_idxs, group_witnesses, signer, sig_pc, sig_hashed,
               sig_message, sig_result, sig_err >>

vars == << tx_vars, sig_vars >>

\* no call of build_signature is under way
SigIdle ==
    /\ input_group_idxs = <<>>
    /\ group_witnesses = <<>>
    /\ signer = [ok |-> FALSE, key |-> 0, err |-> ""]
    /\ sig_pc = "Idle"
    /\ sig_hashed = <<>>
    /\ sig_message = <<>>
    /\ sig_result = None
    /\ sig_err = ""

Init ==
    /\ pc = "Start"
    /\ run = 1
    /\ receipt_witnesses \in WitnessLists
    /\ witnesses = receipt_witnesses
    /\ tx_hash \in TxHashes
    /\ privkey_file \in PrivkeyFiles
    /\ privkey = 0
    /\ unsigned_data = <<>>
    /\ message = <<>>
    /\ entrance_witness = None
    /\ signature_bytes = <<>>
    /\ err = ""
    /\ emitted = None
    /\ SigIdle

\* ------------------------------------------------------------------------
\* Actions
\* ------------------------------------------------------------------------

\* BuildSignature that zeroes the signature slice in the receipt itself instead
\* of in a copy
BuildSignatureInPlace ==
    /\ pc = "Start"
    /\ LET k == ParsePrivkey(privkey_file)
           r == BuildUnsigned(tx_hash, witnesses)
           status == IF k.status # "ok" THEN k.status ELSE r.status
           first == FromSlice(witnesses[1]).args
       IN  /\ pc' = CASE status = "ok" -> "MessageBuilt"
                      [] status = "err" -> "Failed"
                      [] OTHER -> "Crashed"
           /\ err' = IF k.status # "ok" THEN k.err ELSE r.err
           /\ privkey' = k.key
           /\ unsigned_data' = IF status = "ok" THEN r.unsigned_data ELSE <<>>
           /\ message' = IF status = "ok" THEN Blake2b256(r.unsigned_data) ELSE <<>>
           /\ entrance_witness' = IF status = "ok" THEN r.entrance_witness ELSE None
           /\ witnesses' =
                IF /\ k.status = "ok"
                   /\ Len(witnesses) > 0
                   /\ FromSlice(witnesses[1]).ok
                   /\ first.input_type # None
                   /\ SliceInRange(first.input_type[1])
                THEN [witnesses EXCEPT ![1] =
                        AsBytes([first EXCEPT !.input_type = Some(ZeroSignature(@[1]))])]
                ELSE witnesses
    /\ UNCHANGED sig_vars
    /\ UNCHANGED << run, receipt_witnesses, tx_hash, privkey_file,
                    signature_bytes, emitted >>

\* "Building signature": the key is read, then the block that scans the
\* witnesses runs; the first `?` that fails or the first panic ends the run
BuildSignature ==
    /\ pc = "Start"
    /\ LET k == ParsePrivkey(privkey_file)
           r == BuildUnsigned(tx_hash, witnesses)
           status == IF k.status # "ok" THEN k.status ELSE r.status
       IN  /\ pc' = CASE status = "ok" -> "MessageBuilt"
                      [] status = "err" -> "Failed"
                      [] OTHER -> "Crashed"
           /\ err' = IF k.status # "ok" THEN k.err ELSE r.err
           /\ privkey' = k.key
           /\ unsigned_data' = IF status = "ok" THEN r.unsigned_data ELSE <<>>
           /\ message' = IF status = "ok" THEN Blake2b256(r.unsigned_data) ELSE <<>>
           /\ entrance_witness' = IF status = "ok" THEN r.entrance_witness ELSE None
    /\ UNCHANGED sig_vars
    /\ UNCHANGED << run, receipt_witnesses, witnesses, tx_hash, privkey_file,
                    signature_bytes, emitted >>

\* SECP256K1.sign_recoverable(&message, &privkey) and serialize_compact
Sign ==
    /\ pc = "MessageBuilt"
    /\ signature_bytes' = SignatureBytes(message, privkey)
    /\ pc' = "Signed"
    /\ UNCHANGED sig_vars
    /\ UNCHANGED << run, receipt_witnesses, witnesses, tx_hash, privkey_file, privkey,
                    unsigned_data, message, entrance_witness, err, emitted >>

\* "Rebuilding witness": tx_receipt.tx.witnesses[0] = the rebuilt witness
Rebuild ==
    /\ pc = "Signed"
    /\ witnesses' = [witnesses EXCEPT ![1] = RebuildWitness(entrance_witness[1], signature_bytes)]
    /\ pc' = "Embedded"
    /\ UNCHANGED sig_vars
    /\ UNCHANGED << run, receipt_witnesses, tx_hash, privkey_file, privkey,
                    unsigned_data, message, entrance_witness, signature_bytes, err, emitted >>

\* the transaction goes to ckb-cli's tx file and from there to the output
Emit ==
    /\ pc = "Embedded"
    /\ emitted' = Some(witnesses)
    /\ pc' = "Done"
    /\ UNCHANGED sig_vars
    /\ UNCHANGED << run, receipt_witnesses, witnesses, tx_hash, privkey_file, privkey,
                    unsigned_data, message, entrance_witness, signature_bytes, err >>

\* NamedTempFile::new() or the write of the output fails
EmitFail ==
    /\ pc = "Embedded"
    /\ err' = "No such file or directory"
    /\ pc' = "Failed"
    /\ UNCHANGED sig_vars
    /\ UNCHANGED << run, receipt_witnesses, witnesses, tx_hash, privkey_file, privkey,
                    unsigned_data, message, entrance_witness, signature_bytes, emitted >>

\* sign-tx is run again, on the receipt of the transaction the last run signed
SignAgain ==
    /\ pc = "Done"
    /\ run < MaxRuns
    /\ run' = run + 1
    /\ receipt_witnesses' = witnesses
    /\ pc' = "Start"
    /\ privkey' = 0
    /\ unsigned_data' = <<>>
    /\ message' = <<>>
    /\ entrance_witness' = None
    /\ signature_bytes' = <<>>
    /\ err' = ""
    /\ emitted' = None
    /\ UNCHANGED sig_vars
    /\ UNCHANGED << witnesses, tx_hash, privkey_file >>

Next ==
    \/ BuildSignature
    \/ Sign
    \/ Rebuild
    \/ Emit
    \/ EmitFail
    \/ SignAgain

Spec == Init /\ [][Next]_vars

\* ------------------------------------------------------------------------
\* build_signature as a program of its own
\* ------------------------------------------------------------------------

\* sign-tx is not running
TxIdle ==
    /\ pc = "Start"
    /\ run = 1
    /\ receipt_witnesses = <<>>
    /\ witnesses = <<>>
    /\ privkey_file = [len |-> 64, is_hex |-> TRUE, key |-> 1]
    /\ privkey = 0
    /\ unsigned_data = <<>>
    /\ message = <<>>
    /\ entrance_witness = None
    /\ signature_bytes = <<>>
    /\ err = ""
    /\ emitted = None

\* a call build_signature(tx, input_group_idxs, witnesses, signer)
SigInit ==
    /\ TxIdle
    /\ tx_hash \in TxHashes
    /\ group_witnesses \in GroupWitnessLists
    /\ input_group_idxs \in IndexLists(Len(group_witnesses))
    /\ signer \in Signers
    /\ sig_pc = "Called"
    /\ sig_hashed = <<>>
    /\ sig_message = <<>>
    /\ sig_result = None
    /\ sig_err = ""

\* the first witness is decoded and zero-locked and the group is hashed
HashGroup ==
    /\ sig_pc = "Called"
    /\ LET h == HashInputGroup(tx_hash, input_group_idxs, group_witnesses)
       IN  /\ sig_pc' = CASE h.status = "ok" -> "Hashed"
                          [] h.status = "err" -> "Returned"
                          [] OTHER -> "Crashed"
           /\ sig_err' = h.err
           /\ sig_hashed' = h.hashed
           /\ sig_message' = h.message
    /\ UNCHANGED << input_group_idxs, group_witnesses, signer, sig_result >>
    /\ UNCHANGED tx_vars

\* signer(&message) and the return
CallSigner ==
    /\ sig_pc = "Hashed"
    /\ LET r == CallSignerResult(signer, sig_message)
       IN  /\ sig_result' = IF r.ok THEN Some(r.data) ELSE None
           /\ sig_err' = r.err
    /\ sig_pc' = "Returned"
    /\ UNCHANGED << input_group_idxs, group_witnesses, signer, sig_hashed, sig_message >>
    /\ UNCHANGED tx_vars

SigNext ==
    \/ HashGroup
    \/ CallSigner

SigSpec == SigInit /\ [][SigNext]_vars

\* ------------------------------------------------------------------------
\* Well-formedness
\* ------------------------------------------------------------------------

IsByte(b) == b \in 0..255

TypeOK ==
    /\ pc \in {"Start", "MessageBuilt", "Signed", "Embedded", "Done", "Failed", "Crashed"}
    /\ run \in 1..MaxRuns
    /\ \A i \in 1..Len(witnesses) : \A j \in 1..Len(witnesses[i]) : IsByte(witnesses[i][j])
    /\ Len(witnesses) = Len(receipt_witnesses)
    /\ signature_bytes # <<>> => Len(signature_bytes) = SigLen

\* ------------------------------------------------------------------------
\* Vocabulary of the properties
\* ------------------------------------------------------------------------

\* the run has built its message
MessageIsBuilt == pc \in {"MessageBuilt", "Signed", "Embedded", "Done"}

\* the run has written the signature into the receipt
IsEmbedded == pc \in {"Embedded", "Done"}

\* the errors of the signing protocol, as opposed to those of writing the output
KeyErrors == {"Invalid character", "malformed or out-of-range secret key"}

ProtocolErrors == KeyErrors \cup {"Invalid witness", "No entrance witness found"}

ProtocolFailed == pc = "Failed" /\ err \in ProtocolErrors

\* the run is over and got as far as embedding the signature
SigningSucceeded == IsEmbedded \/ (pc = "Failed" /\ err \notin ProtocolErrors)

\* BuildSignature has run and what follows can only end the run the same way
PhaseOneOver == pc # "Start"

KeyLoads == ParsePrivkey(privkey_file).status = "ok"

Decodes(w) == FromSlice(w).ok

AllDecode(ws) == \A i \in 1..Len(ws) : Decodes(ws[i])

HasInputSide(w) == Decodes(w) /\ FromSlice(w).args.input_type # None

HasOutputSide(w) == Decodes(w) /\ FromSlice(w).args.output_type # None

InputSide(w) == FromSlice(w).args.input_type[1]

OutputSide(w) == FromSlice(w).args.output_type[1]

CarriesPayload(w) == HasInputSide(w) \/ HasOutputSide(w)

\* the payload Phase 1 reads from a witness: input-side first
PayloadOf(w) == IF HasInputSide(w) THEN InputSide(w) ELSE OutputSide(w)

\* s with the bytes [a, b) replaced by r, Len(r) = b - a
Overwrite(s, a, b, r) == [i \in 1..Len(s) |-> IF i > a /\ i <= b THEN r[i - a] ELSE s[i]]

Zeroed(payload) == Overwrite(payload, SigOffset, SigOffset + SigLen, Repeat(0, SigLen))

\* what the witness at 1-based position i gives to the message from a bucket:
\* its payload, with the signature slice zeroed at index 0
FromInputBucket(ws, i) ==
    IF ~HasInputSide(ws[i]) THEN <<>>
    ELSE IF i = 1 THEN Zeroed(InputSide(ws[i])) ELSE InputSide(ws[i])

FromOutputBucket(ws, i) ==
    IF HasInputSide(ws[i]) \/ ~HasOutputSide(ws[i]) THEN <<>>
    ELSE IF i = 1 THEN Zeroed(OutputSide(ws[i])) ELSE OutputSide(ws[i])

\* the concatenation of a bucket over the positions lo..Len(ws)
RECURSIVE InputBucket(_, _)
InputBucket(ws, lo) ==
    IF lo > Len(ws) THEN <<>> ELSE FromInputBucket(ws, lo) \o InputBucket(ws, lo + 1)

RECURSIVE OutputBucket(_, _)
OutputBucket(ws, lo) ==
    IF lo > Len(ws) THEN <<>> ELSE FromOutputBucket(ws, lo) \o OutputBucket(ws, lo + 1)

\* the receipt with the bytes [4, 69) of its entrance payload replaced by sig
WithEntranceSignature(ws, sig) ==
    LET a == FromSlice(ws[1]).args
        p == Overwrite(PayloadOf(ws[1]), SigOffset, SigOffset + SigLen, sig)
    IN  [ws EXCEPT ![1] = AsBytes(IF a.input_type # None
                                  THEN [a EXCEPT !.input_type = Some(p)]
                                  ELSE [a EXCEPT !.output_type = Some(p)])]

OtherSignatures ==
    { Repeat(0, SigLen), Repeat(255, SigLen), [i \in 1..SigLen |-> i],
      [i \in 1..SigLen |-> IF i = SigLen THEN 1 ELSE 0] }

\* ------------------------------------------------------------------------
\* Properties
\* ------------------------------------------------------------------------

\* C1: the unsigned message does not depend on the bytes [4, 69) of the entrance
\* payload: a receipt that differs from the one read only in those bytes yields
\* the same message, and the message holds 65 zero bytes where the entrance
\* payload's signature slice falls, for an input-side and for an output-side
\* entrance alike.
C1_MessageIndependentOfSignature ==
    MessageIsBuilt =>
        /\ \A sig \in OtherSignatures \cup {signature_bytes} :
              Len(sig) = SigLen =>
                LET r == BuildUnsigned(tx_hash, WithEntranceSignature(receipt_witnesses, sig))
                IN  r.status = "ok" /\ r.unsigned_data = unsigned_data
        /\ LET off == HashLen + (IF HasInputSide(receipt_witnesses[1])
                                 THEN 0 ELSE Len(InputBucket(receipt_witnesses, 2)))
           IN  Slice(unsigned_data, off + SigOffset, off + SigOffset + SigLen)
                 = Repeat(0, SigLen)

C1_Witness ==
    /\ pc = "MessageBuilt"
    /\ ~HasInputSide(receipt_witnesses[1])
    /\ Slice(PayloadOf(receipt_witnesses[1]), SigOffset, SigOffset + SigLen) # Repeat(0, SigLen)
    /\ \E i \in 2..Len(receipt_witnesses) : HasInputSide(receipt_witnesses[i])

\* C2: the message body after the transaction hash is the input-side payload of
\* every witness that has one, in ascending index order, followed by the
\* output-side payload of every witness that has one and no input-side payload,
\* in ascending index order (the entrance payload with its signature zeroed).
C2_BodyIsBucketOrder ==
    MessageIsBuilt =>
        unsigned_data = tx_hash \o InputBucket(receipt_witnesses, 1)
                                \o OutputBucket(receipt_witnesses, 1)

C2_Witness ==
    /\ pc = "MessageBuilt"
    /\ \E i, j, k \in 1..Len(receipt_witnesses) :
          /\ i < j
          /\ ~HasInputSide(receipt_witnesses[i]) /\ HasOutputSide(receipt_witnesses[i])
          /\ HasInputSide(receipt_witnesses[j])
          /\ HasInputSide(receipt_witnesses[k]) /\ HasOutputSide(receipt_witnesses[k])
    /\ \E i \in 1..Len(receipt_witnesses) : ~CarriesPayload(receipt_witnesses[i])

\* C3 as stated: the unsigned message is the hash, immediately followed by the
\* zeroed entrance payload, followed by all other payloads in bucket/index order.
C3_EntranceFollowsHash ==
    MessageIsBuilt =>
        unsigned_data = tx_hash \o Zeroed(PayloadOf(receipt_witnesses[1]))
                                \o InputBucket(receipt_witnesses, 2)
                                \o OutputBucket(receipt_witnesses, 2)

\* C3 amended: the zeroed entrance payload follows the hash when it is an
\* input-side payload; an output-side entrance payload comes after the
\* input-side payloads of the other witnesses and before their output-side ones.
C3_EntranceInBucketOrder ==
    MessageIsBuilt =>
        LET z == Zeroed(PayloadOf(receipt_witnesses[1]))
        IN  unsigned_data =
              IF HasInputSide(receipt_witnesses[1])
              THEN tx_hash \o z \o InputBucket(receipt_witnesses, 2)
                           \o OutputBucket(receipt_witnesses, 2)
              ELSE tx_hash \o InputBucket(receipt_witnesses, 2) \o z
                           \o OutputBucket(receipt_witnesses, 2)

C3_Witness ==
    /\ pc = "Signed"
    /\ ~HasInputSide(receipt_witnesses[1])
    /\ \E i, j \in 2..Len(receipt_witnesses) :
          /\ HasInputSide(receipt_witnesses[i])
          /\ ~HasInputSide(receipt_witnesses[j]) /\ HasOutputSide(receipt_witnesses[j])

\* C4 as stated: after a successful run only witness 0 differs from the receipt
\* read; its entrance payload has the signature in bytes [4, 69) and is
\* otherwise the original entrance payload; the other witnesses are identical.
C4_OnlySignatureSliceChanges ==
    IsEmbedded =>
        /\ Len(witnesses) = Len(receipt_witnesses)
        /\ \A i \in 2..Len(witnesses) : witnesses[i] = receipt_witnesses[i]
        /\ Decodes(witnesses[1]) /\ CarriesPayload(witnesses[1])
        /\ LET new == PayloadOf(witnesses[1])
               old == PayloadOf(receipt_witnesses[1])
           IN  /\ Len(new) = Len(old)
               /\ Slice(new, SigOffset, SigOffset + SigLen) = signature_bytes
               /\ \A i \in 1..Len(old) :
                     (i <= SigOffset \/ i > SigOffset + SigLen) => new[i] = old[i]

\* C5 as stated: the signed payload is written into the field the entrance
\* payload was read from, input-side when both are present; the lock and the
\* other optional field of witness 0 stay as they were.
C5_RewrapsIntoSourceField ==
    IsEmbedded =>
        LET old == FromSlice(receipt_witnesses[1]).args
            new == FromSlice(witnesses[1]).args
            signed == Overwrite(PayloadOf(receipt_witnesses[1]),
                                SigOffset, SigOffset + SigLen, signature_bytes)
        IN  /\ Decodes(witnesses[1])
            /\ new.lock = old.lock
            /\ IF old.input_type # None
               THEN new.input_type = Some(signed) /\ new.output_type = old.output_type
               ELSE new.output_type = Some(signed) /\ new.input_type = old.input_type

\* the steps a run and its successor may take
PhaseSteps ==
    { <<"Start", "MessageBuilt">>, <<"MessageBuilt", "Signed">>, <<"Signed", "Embedded">>,
      <<"Start", "Failed">>, <<"Start", "Crashed">>,
      <<"Embedded", "Done">>, <<"Embedded", "Failed">>, <<"Done", "Start">> }

C6_StepsInOrder ==
    /\ pc' # pc => <<pc, pc'>> \in PhaseSteps
    /\ witnesses' # witnesses => pc = "Signed" /\ pc' = "Embedded"

C6_FailureLeavesReceipt ==
    (ProtocolFailed \/ pc = "Crashed") =>
        /\ witnesses = receipt_witnesses
        /\ emitted = None
        /\ signature_bytes = <<>>

\* C6: a run goes Start -> MessageBuilt -> Signed -> Embedded in that order, the
\* receipt's witnesses are written only in the step Signed -> Embedded, and a
\* run that fails in the protocol (undecodable witness, no entrance witness,
\* bad key) leaves the receipt's witnesses as read and emits no transaction.
C6_NoPartialMutation ==
    [][C6_StepsInOrder]_vars /\ []C6_FailureLeavesReceipt

C6_Witness ==
    /\ pc = "Failed"
    /\ err = "Invalid witness"
    /\ Len(receipt_witnesses) > 1
    /\ HasInputSide(receipt_witnesses[1])
    /\ Slice(InputSide(receipt_witnesses[1]), SigOffset, SigOffset + SigLen) # Repeat(0, SigLen)

\* the witness list has no payload at index 0
NoEntrancePayload(ws) == Len(ws) = 0 \/ (Decodes(ws[1]) /\ ~CarriesPayload(ws[1]))

HasEntrancePayload(ws) == Len(ws) > 0 /\ CarriesPayload(ws[1])

EntranceIsIndexZero ==
    entrance_witness # None =>
        /\ entrance_witness[1].witness_args = FromSlice(receipt_witnesses[1]).args
        /\ entrance_witness[1].raw_witness = PayloadOf(receipt_witnesses[1])

\* C7 as stated, for a run whose key loads and whose witnesses all decode:
\* without a payload at index 0 the run fails with "No entrance witness found";
\* with a payload at index 0 the entrance is witness 0 and the run succeeds.
C7_EntranceIsIndexZeroOrFail ==
    (KeyLoads /\ PhaseOneOver /\ AllDecode(receipt_witnesses)) =>
        /\ NoEntrancePayload(receipt_witnesses) =>
              pc = "Failed" /\ err = "No entrance witness found"
        /\ HasEntrancePayload(receipt_witnesses) =>
              EntranceIsIndexZero /\ (MessageIsBuilt \/ SigningSucceeded)

\* C8 as stated, for a run whose key loads: when some witness does not decode,
\* whatever its index and whatever witness 0 holds, the run fails with
\* "Invalid witness" and no signature has been produced.
C8_UndecodableWitnessAborts ==
    (KeyLoads /\ PhaseOneOver /\ ~AllDecode(receipt_witnesses)) =>
        /\ pc = "Failed"
        /\ err = "Invalid witness"
        /\ signature_bytes = <<>>

\* C9 as stated, for a run whose key loads and whose witnesses decode: an entrance
\* payload shorter than 69 bytes ends the run in a reported error, not a crash,
\* with the receipt unchanged.
C9_ShortEntranceIsReported ==
    (/\ KeyLoads /\ PhaseOneOver /\ AllDecode(receipt_witnesses)
     /\ HasEntrancePayload(receipt_witnesses)
     /\ Len(PayloadOf(receipt_witnesses[1])) < SigOffset + SigLen) =>
        /\ pc = "Failed"
        /\ witnesses = receipt_witnesses

\* Phase 3 applied to a witness list: the entrance Phase 1 finds in it is
\* rebuilt with the signature and put at index 0
Phase3(ws, sig) ==
    [ws EXCEPT ![1] = RebuildWitness(BuildUnsigned(tx_hash, ws).entrance_witness[1], sig)]

\* C10: embedding the same signature a second time changes nothing, and a
\* second run of sign-tx on the signed receipt leaves its witnesses as they are.
C10_EmbeddingIsIdempotent ==
    IsEmbedded =>
        /\ witnesses = Phase3(receipt_witnesses, signature_bytes)
        /\ Phase3(witnesses, signature_bytes) = witnesses
        /\ run > 1 => witnesses = receipt_witnesses

C10_Witness ==
    /\ run = 2
    /\ pc = "Embedded"
    /\ HasInputSide(receipt_witnesses[1])
    /\ Len(receipt_witnesses) > 1

\* ------------------------------------------------------------------------
\* Properties of build_signature
\* ------------------------------------------------------------------------

\* the group has been hashed: the hasher has at least the transaction hash
GroupIsHashed == sig_hashed # <<>>

\* the witness at input_group_idxs[0]
FirstWitness == group_witnesses[input_group_idxs[1] + 1]

\* the fields of the first witness, those of an empty envelope when it is empty
FirstArgs == IF FirstWitness = <<>> THEN Args(None, None, None) ELSE FromSlice(FirstWitness).args

\* the witnesses with the lock of the first witness replaced
WithFirstLock(lock) ==
    [group_witnesses EXCEPT ![input_group_idxs[1] + 1] =
        AsBytes(Args(lock, FirstArgs.input_type, FirstArgs.output_type))]

OtherLocks == { None, Some(<<9>>), Some(Repeat(255, SigLen)) }

\* a length below 2^32 as 8 little-endian bytes
LengthLE8(n) ==
    << n % 256, (n \div 256) % 256, (n \div 65536) % 256, (n \div 16777216) % 256,
       0, 0, 0, 0 >>

\* the length and the raw bytes of the witnesses at the positions lo.. of
\* input_group_idxs, in the order given
RECURSIVE RestOfGroup(_)
RestOfGroup(lo) ==
    IF lo > Len(input_group_idxs) THEN <<>>
    ELSE LET w == group_witnesses[input_group_idxs[lo] + 1]
         IN  LengthLE8(Len(w)) \o w \o RestOfGroup(lo + 1)

C11_DigestIgnoresLock ==
    GroupIsHashed =>
        \A lock \in OtherLocks :
            LET h == HashInputGroup(tx_hash, input_group_idxs, WithFirstLock(lock))
            IN  h.status = "ok" /\ h.message = sig_message

C11_DigestLayout ==
    GroupIsHashed =>
        LET first == AsBytes(Args(Some(Repeat(0, SigLen)),
                                  FirstArgs.input_type, FirstArgs.output_type))
        IN  /\ sig_hashed = tx_hash \o LengthLE8(Len(first)) \o first \o RestOfGroup(2)
            /\ sig_message = Blake2b256(sig_hashed)

C11_ReturnsSignerOutcome ==
    (sig_pc = "Returned" /\ GroupIsHashed) =>
        IF signer.ok
        THEN /\ sig_result = Some(SignatureBytes(sig_message, signer.key))
             /\ Len(sig_result[1]) = SigLen
             /\ sig_err = ""
        ELSE sig_result = None /\ sig_err = signer.err

====
